---- MODULE Spec2Model ----
(***************************************************************************)
(* Model of RAGManager (src/lightrag/rag_manager.py): a bounded pool of    *)
(* per-course LightRAG instances used by concurrent asyncio tasks.         *)
(*                                                                         *)
(* asyncio runs one coroutine at a time and switches only at an await that *)
(* really suspends.  Every action below is therefore one run of a          *)
(* coroutine from one suspension point to the next:                        *)
(*   - waiting for _initialization_lock when it is taken      (line 101)   *)
(*   - await finalize_storages() of the eviction victim       (line 108)   *)
(*   - await rag.initialize_storages()                        (line 121)   *)
(*   - await asyncio.gather of the tasks                     (line 140)   *)
(*   - await rag.finalize_storages() inside cleanup           (line 181)   *)
(* Python dicts keep insertion order; min() and the cleanup loop depend on *)
(* it, so both dicts are sequences of <<key, value>> pairs.                *)
(***************************************************************************)
EXTENDS Integers, Sequences, FiniteSets, TLC

\* ---------------------------------------------------------------- bounds
MaxCapacity == 2      \* max_preloaded given to the constructor
NumTenants  == 3      \* course ids that callers ask for
NumCallers  == 2      \* request handlers calling the manager concurrently
MaxCalls    == 3      \* public calls started in one behaviour
MaxPreloads == 1      \* preload_courses calls among them
MaxIds      == 3      \* longest course_ids list handed to preload_courses

Tenants  == 1 .. NumTenants
Callers  == 1 .. NumCallers
\* preload_courses makes one task per element of its tasks list
Children == (NumCallers + 1) .. (NumCallers + MaxIds)
Tasks    == Callers \cup Children
NoTenant == 0
NoEngine == 0

\* ------------------------------------------------- Python dict operations
Keys(d) == { d[i][1] : i \in DOMAIN d }

Has(d, k) == k \in Keys(d)

IndexOf(d, k) == CHOOSE i \in DOMAIN d : d[i][1] = k

\* d[k]
Lookup(d, k) == d[IndexOf(d, k)][2]

\* d.get(k, default)
GetOr(d, k, default) == IF Has(d, k) THEN Lookup(d, k) ELSE default

\* d[k] = v : an existing key keeps its position, a new key goes last
Put(d, k, v) ==
    IF Has(d, k) THEN [d EXCEPT ![IndexOf(d, k)] = <<k, v>>]
    ELSE Append(d, <<k, v>>)

\* (variant: the entry is not deleted)
DelNothing(d, k) == d

\* del d[k]
Del(d, k) == SelectSeq(d, LAMBDA e : e[1] # k)

\* min(items, key=lambda x: x[1]): running scan that replaces the best item
\* only by a strictly smaller one, so the first minimal item wins
RECURSIVE MinScan(_, _, _)
MinScan(d, i, best) ==
    IF i > Len(d) THEN best
    ELSE MinScan(d, i + 1, IF d[i][2] < best[2] THEN d[i] ELSE best)

\* (variant: a scan that also replaces on an equal key, last minimum wins)
RECURSIVE MinScanLast(_, _, _)
MinScanLast(d, i, best) ==
    IF i > Len(d) THEN best
    ELSE MinScanLast(d, i + 1, IF d[i][2] <= best[2] THEN d[i] ELSE best)

MinItemLast(d) == MinScanLast(d, 2, d[1])

MinItem(d) == MinScan(d, 2, d[1])

\* (variant: the slice is missing, every id gets a task)
NoTruncate(s) == s

\* course_ids[:self.max_preloaded]
Truncate(s) == SubSeq(s, 1, IF Len(s) < MaxCapacity THEN Len(s) ELSE MaxCapacity)

\* ------------------------------------------------------------------ state
VARIABLES
    rag_instances,        \* self.rag_instances: <<course, engine>> pairs
    course_access_count,  \* self.course_access_count: <<course, count>> pairs
    locked,               \* self._initialization_lock is held
    waiters,              \* tasks queued on the lock, in arrival order
    pc,                   \* where each task is suspended
    op,                   \* the public call a task is running (or ran last)
    course,               \* its course_id argument
    least_used,           \* local least_used of initialize_course
    rag,                  \* local rag of initialize_course / loop variable
    ret,                  \* how the task's last call ended
    got,                  \* the engine the last call returned
    engines,              \* every LightRAG object constructed so far
    course_ids,           \* argument of the latest preload_courses
    calls,                \* public calls started so far
    preloads,             \* preload_courses calls started so far
    hits,                 \* per course: get_rag calls that returned an engine
                          \* since the course was last registered (history)
    nodes                 \* local nodes of get_source_graph (graph_routes.py)

vars == <<rag_instances, course_access_count, locked, waiters, pc, op, course,
          least_used, rag, ret, got, engines, course_ids, calls, preloads,
          hits, nodes>>

Ops == {"none", "get", "switch", "ensure", "preload", "cleanup", "source"}

\* an object built by LightRAG(...): its course, its lifecycle state and the
\* number of finalize_storages() calls made on it
Engine(t) == [course |-> t, st |-> "initializing", fin |-> 0]

\* what is kept of an object the manager holds no reference to any more
Dropped == [course |-> NoTenant, st |-> "dropped", fin |-> 0]

SetState(eng, e, s) == [eng EXCEPT ![e].st = s]

Drop(eng, e) == [eng EXCEPT ![e] = Dropped]

\* the call obj.finalize_storages() on engine e begins
StartFinalize(eng, e) == [eng EXCEPT ![e].st = "finalizing", ![e].fin = @ + 1]

Init ==
    /\ rag_instances = << >>
    /\ course_access_count = << >>
    /\ locked = FALSE
    /\ waiters = << >>
    /\ pc = [p \in Tasks |-> "idle"]
    /\ op = [p \in Tasks |-> "none"]
    /\ course = [p \in Tasks |-> NoTenant]
    /\ least_used = [p \in Tasks |-> NoTenant]
    /\ rag = [p \in Tasks |-> NoEngine]
    /\ ret = [p \in Tasks |-> "none"]
    /\ got = [p \in Tasks |-> NoEngine]
    /\ engines = << >>
    /\ course_ids = << >>
    /\ calls = 0
    /\ preloads = 0
    /\ hits = [t \in Tenants |-> 0]
    /\ nodes = [p \in Tasks |-> "none"]

\* ------------------------------------------------------ code conditions
\* (variant: no second look once the lock is held)
AlreadyInitializedUnchecked(ri, t) == FALSE

\* line 102: course_id in self.rag_instances, re-checked under the lock
AlreadyInitialized(ri, t) == Has(ri, t)

\* (variant: no look at the dict, every call goes through initialize_course)
NotLoadedAlways(ri, t) == TRUE

\* line 153: course_id not in self.rag_instances
NotLoaded(ri, t) == ~Has(ri, t)

\* (variant: > in place of >=)
AtCapacityOffByOne(ri) == Len(ri) > MaxCapacity

\* (variant: the pool counts as full one course early)
AtCapacityEarly(ri) == Len(ri) >= MaxCapacity - 1

\* line 106: len(self.rag_instances) >= self.max_preloaded
AtCapacity(ri) == Len(ri) >= MaxCapacity

\* lines 122-123: the two registrations of a new instance
RegisterInstance(ri, t, e) == Put(ri, t, e)

\* (variant: line 123 is missing)
RegisterCountForgotten(cac, t) == cac

RegisterCount(cac, t) == Put(cac, t, 0)

\* (variant: the count is set, not incremented)
TouchOverwrites(cac, t) == Put(cac, t, 1)

\* line 157: self.course_access_count[c] = self.course_access_count.get(c, 0) + 1
Touch(cac, t) == Put(cac, t, GetOr(cac, t, 0) + 1)

\* (variant: the count is updated whether or not line 154 raised)
TouchesAlways(o, ok) == o \in {"get", "switch"}

\* (variant: initialize_course counts a use as well)
TouchesEnsure(o, ok) == ok

\* line 157 is part of get_rag only, and is reached only when line 154
\* did not raise
Touches(o, ok) == ok /\ o \in {"get", "switch"}

\* (variant: no try/except, the failure leaves switch_course)
SwitchResultRaises(good) == IF good THEN "true" ELSE "raised"

\* lines 170-175: True when get_rag returned, False when it raised
SwitchResult(good) == IF good THEN "true" ELSE "false"

\* (variant: no try/except, the failure leaves cleanup)
CleanupRaises(ok) == ok

\* lines 180-184: the try/except around finalize_storages() in cleanup
\* catches the failure, so the loop goes on whatever the outcome
CleanupCatches(ok) == TRUE

\* the tasks of a preload_courses whose results are still of interest
Kids == { k \in Children : op[k] = "ensure" }

Gathering == \E q \in Callers : pc[q] = "gather"

\* gather() schedules its tasks back to back: once the first has started,
\* the event loop starts the others before it runs anything else
Bursting == /\ pc[NumCallers + 1] # "spawned"
            /\ \E k \in Children : pc[k] = "spawned"

\* cleanup's precondition: no other call is in progress while it runs
Quiescent == \A q \in Tasks : pc[q] = "idle"
Cleaning  == \E q \in Tasks : pc[q] = "cleaning"

\* a caller that has just been handed the outcome of its call takes it
\* before the event loop runs another task
Settled == \A q \in Tasks : pc[q] # "done"

\* (variant: initialize_course without the lock)
LockFreeAlways == TRUE

\* the lock can be taken without waiting (asyncio.Lock.acquire)
LockFree == ~locked /\ waiters = << >>

\* (variant: acquire() and release() around the body without try/finally, an
\* exception skips the release)
HeldAfterRaise(ok) == ~ok

\* line 101: async with releases the lock when the body is left, by a return
\* (ok) or by an exception (~ok)
HeldAfter(ok) == FALSE

\* ------------------------------------------------------- code segments
\* The end of task p's call on course t, op o, with the dicts, engines and
\* history (ri, cac, eng, h) as the code before it left them.  ok:
\* initialize_course returned engine e (or the fast path was taken); get_rag
\* then runs lines 157-158 with no await in between.  ~ok: an exception
\* leaves initialize_course; get_rag lets it through, switch_course turns it
\* into False (lines 173-175).  A caller is then "done": it holds the outcome
\* of its call.  Of a task of gather() only the outcome counts, and only while
\* its preload_courses is still waiting for it.
Finish(p, t, o, ri, cac, eng, h, e, ok) ==
    LET touched == Touches(o, ok)
        cac2    == IF touched THEN Touch(cac, t) ELSE cac
        \* line 158 raises KeyError when the course is not in rag_instances
        good    == ok /\ (touched => Has(ri, t))
        child   == p \in Children
        orphan  == child /\ ~Gathering
    IN  /\ rag_instances' = ri
        /\ course_access_count' = cac2
        /\ engines' = eng
        /\ pc' = [pc EXCEPT ![p] = IF child THEN "idle" ELSE "done"]
        /\ op' = [op EXCEPT ![p] = IF orphan THEN "none" ELSE o]
        /\ course' = [course EXCEPT ![p] = IF child THEN NoTenant ELSE t]
        /\ ret' = [ret EXCEPT ![p] =
                     IF orphan THEN "none"
                     ELSE IF o = "switch" THEN SwitchResult(good)
                          ELSE (IF good THEN "ok" ELSE "raised")]
        /\ got' = [got EXCEPT ![p] =
                     IF ~good \/ child THEN NoEngine
                     ELSE IF touched THEN Lookup(ri, t) ELSE e]
        /\ hits' = IF touched /\ good THEN [h EXCEPT ![t] = @ + 1] ELSE h
        /\ least_used' = [least_used EXCEPT ![p] = NoTenant]
        /\ rag' = [rag EXCEPT ![p] = NoEngine]

\* lines 112-121: LightRAG(**course_kwargs) builds a new object and the task
\* suspends in rag.initialize_storages(), still holding the lock.  (An
\* exception of the constructor at line 120 takes the path of an exception
\* of line 121.)
Construct(p, t, o, ri, cac, eng, h) ==
    /\ rag_instances' = ri
    /\ course_access_count' = cac
    /\ engines' = Append(eng, Engine(t))
    /\ rag' = [rag EXCEPT ![p] = Len(eng) + 1]
    /\ pc' = [pc EXCEPT ![p] = "initializing"]
    /\ op' = [op EXCEPT ![p] = o]
    /\ course' = [course EXCEPT ![p] = t]
    /\ least_used' = least_used
    /\ hits' = h
    /\ locked' = TRUE
    /\ ret' = [ret EXCEPT ![p] = "none"]
    /\ got' = [got EXCEPT ![p] = NoEngine]

\* lines 102-121, run by the task that has just taken the lock
UnderLock(p, t, o) ==
    IF AlreadyInitialized(rag_instances, t) THEN
        \* line 103
        /\ locked' = HeldAfter(TRUE)
        /\ Finish(p, t, o, rag_instances, course_access_count, engines, hits,
                  Lookup(rag_instances, t), TRUE)
    ELSE IF AtCapacity(rag_instances) THEN
        IF course_access_count = << >>
           \/ ~Has(rag_instances, MinItem(course_access_count)[1]) THEN
            \* min() of an empty sequence, or a KeyError at line 108
            /\ locked' = HeldAfter(FALSE)
            /\ Finish(p, t, o, rag_instances, course_access_count, engines,
                      hits, NoEngine, FALSE)
        ELSE
            \* lines 107-108: pick the victim, suspend in its finalize
            LET v == MinItem(course_access_count)[1] IN
            /\ locked' = TRUE
            /\ least_used' = [least_used EXCEPT ![p] = v]
            /\ engines' = StartFinalize(engines, Lookup(rag_instances, v))
            /\ pc' = [pc EXCEPT ![p] = "finalizing"]
            /\ op' = [op EXCEPT ![p] = o]
            /\ course' = [course EXCEPT ![p] = t]
            /\ ret' = [ret EXCEPT ![p] = "none"]
            /\ got' = [got EXCEPT ![p] = NoEngine]
            /\ UNCHANGED <<rag_instances, course_access_count, rag, hits>>
    ELSE
        Construct(p, t, o, rag_instances, course_access_count, engines, hits)

\* line 101: async with self._initialization_lock
Enter(p, t, o) ==
    IF LockFree THEN
        /\ UnderLock(p, t, o)
        /\ UNCHANGED waiters
    ELSE
        /\ waiters' = Append(waiters, p)
        /\ pc' = [pc EXCEPT ![p] = "waiting"]
        /\ op' = [op EXCEPT ![p] = o]
        /\ course' = [course EXCEPT ![p] = t]
        /\ ret' = [ret EXCEPT ![p] = "none"]
        /\ got' = [got EXCEPT ![p] = NoEngine]
        /\ UNCHANGED <<rag_instances, course_access_count, locked, least_used,
                       rag, engines, hits>>

\* ---------------------------------------------------------------- actions
\* get_rag(t) / switch_course(t) is called: lines 153-158 up to the first
\* suspension.  A loaded course takes the fast path and never sees the lock.
Call(p, t, o) ==
    /\ pc[p] = "idle" /\ calls < MaxCalls /\ ~Cleaning /\ ~Bursting
    /\ Settled
    /\ calls' = calls + 1
    /\ UNCHANGED <<course_ids, preloads, nodes>>
    /\ IF NotLoaded(rag_instances, t) THEN Enter(p, t, o)
       ELSE /\ Finish(p, t, o, rag_instances, course_access_count, engines,
                      hits, NoEngine, TRUE)
            /\ UNCHANGED <<locked, waiters>>

GetRag(p) == \E t \in Tenants : Call(p, t, "get")

SwitchCourse(p) == \E t \in Tenants : Call(p, t, "switch")

\* the lock is handed to the first waiter, which goes on at line 102
LockGranted(p) ==
    /\ pc[p] = "waiting" /\ ~locked /\ ~Bursting /\ Settled
    /\ waiters # << >> /\ Head(waiters) = p
    /\ waiters' = Tail(waiters)
    /\ UnderLock(p, course[p], op[p])
    /\ UNCHANGED <<course_ids, calls, preloads, nodes>>

\* line 108 comes back: the victim's finalize_storages() succeeded (lines
\* 109-121 follow) or raised (the exception leaves initialize_course)
FinalizeDone(p) ==
    /\ pc[p] = "finalizing" /\ ~Bursting /\ Settled
    /\ LET v == least_used[p]
           e == Lookup(rag_instances, v)
       IN  \/ Construct(p, course[p], op[p],
                        Del(rag_instances, v), Del(course_access_count, v),
                        Drop(engines, e), [hits EXCEPT ![v] = 0])
           \/ /\ locked' = HeldAfter(FALSE)
              /\ Finish(p, course[p], op[p], rag_instances,
                        course_access_count,
                        SetState(engines, e, "finalize_failed"), hits,
                        NoEngine, FALSE)
    /\ UNCHANGED <<waiters, course_ids, calls, preloads, nodes>>

\* line 121 comes back: initialize_storages() succeeded (lines 122-126, then
\* the caller's lines 157-158) or raised
InitializeDone(p) ==
    /\ pc[p] = "initializing" /\ ~Bursting /\ Settled
    /\ LET t == course[p]
           e == rag[p]
       IN  \/ /\ locked' = HeldAfter(TRUE)
              /\ Finish(p, t, op[p],
                        RegisterInstance(rag_instances, t, e),
                        RegisterCount(course_access_count, t),
                        SetState(engines, e, "live"),
                        [hits EXCEPT ![t] = 0], e, TRUE)
           \/ /\ locked' = HeldAfter(FALSE)
              /\ Finish(p, t, op[p], rag_instances, course_access_count,
                        Drop(engines, e), hits, NoEngine, FALSE)
    /\ UNCHANGED <<waiters, course_ids, calls, preloads, nodes>>

\* the course_ids lists a caller may hand to preload_courses
Inputs == UNION { [1 .. n -> Tenants] : n \in 1 .. MaxIds }

\* preload_courses, lines 136-140: one initialize_course task per retained
\* id, in order, then the caller suspends in gather()
Preload(p, ids) ==
    /\ pc[p] = "idle" /\ calls < MaxCalls /\ ~Cleaning /\ Settled
    /\ preloads < MaxPreloads
    /\ \A k \in Children : pc[k] = "idle" /\ op[k] = "none"
    /\ LET kept == Truncate(ids)
           new  == { k \in Children : k - NumCallers <= Len(kept) }
       IN  /\ course_ids' = ids
           /\ pc' = [q \in Tasks |-> IF q = p THEN "gather"
                                     ELSE IF q \in new THEN "spawned"
                                     ELSE pc[q]]
           /\ op' = [q \in Tasks |-> IF q = p THEN "preload"
                                     ELSE IF q \in new THEN "ensure"
                                     ELSE op[q]]
           /\ course' = [q \in Tasks |-> IF q \in new
                                         THEN kept[q - NumCallers]
                                         ELSE IF q = p THEN NoTenant
                                         ELSE course[q]]
           /\ ret' = [ret EXCEPT ![p] = "none"]
           /\ got' = [got EXCEPT ![p] = NoEngine]
    /\ calls' = calls + 1
    /\ preloads' = preloads + 1
    /\ UNCHANGED <<rag_instances, course_access_count, locked, waiters,
                   least_used, rag, engines, hits, nodes>>

PreloadCourses(p) == \E ids \in Inputs : Preload(p, ids)

\* a task made by gather() starts running initialize_course (line 101);
\* the tasks start in the order in which they were made
ChildStart(k) ==
    /\ k \in Children /\ pc[k] = "spawned" /\ Settled
    /\ \A j \in Children : j < k => pc[j] # "spawned"
    /\ Enter(k, course[k], "ensure")
    /\ UNCHANGED <<course_ids, calls, preloads, nodes>>

\* line 140 comes back: gather() without return_exceptions delivers the
\* results once every task has returned, or the first exception as soon as
\* one task has raised; it does not cancel the other tasks, which run on
GatherResult ==
    IF \E k \in Kids : pc[k] = "idle" /\ ret[k] = "raised" THEN "raised"
    ELSE IF \A k \in Kids : pc[k] = "idle" THEN "ok"
    ELSE "pending"

PreloadReturn(p) ==
    /\ pc[p] = "gather" /\ ~Bursting /\ Settled
    /\ GatherResult # "pending"
    /\ ret' = [q \in Tasks |-> IF q = p THEN GatherResult
                               ELSE IF q \in Children THEN "none"
                               ELSE ret[q]]
    /\ pc' = [pc EXCEPT ![p] = "done"]
    /\ op' = [q \in Tasks |-> IF q \in Children /\ pc[q] = "idle"
                              THEN "none" ELSE op[q]]
    /\ course' = [q \in Tasks |-> IF q \in Children /\ pc[q] = "idle"
                                  THEN NoTenant ELSE course[q]]
    /\ got' = [q \in Tasks |-> IF q \in Children THEN NoEngine ELSE got[q]]
    /\ course_ids' = << >>
    /\ UNCHANGED <<rag_instances, course_access_count, locked, waiters,
                   least_used, rag, engines, calls, preloads, nodes, hits>>

\* cleanup from the item at position i of rag_instances on (lines 179-187):
\* suspend in the finalize of that item, or, past the last item, clear both
\* dicts and return
CleanupFrom(p, i, eng) ==
    IF i <= Len(rag_instances) THEN
        /\ course' = [course EXCEPT ![p] = rag_instances[i][1]]
        /\ rag' = [rag EXCEPT ![p] = rag_instances[i][2]]
        /\ engines' = StartFinalize(eng, rag_instances[i][2])
        /\ pc' = [pc EXCEPT ![p] = "cleaning"]
        /\ ret' = [ret EXCEPT ![p] = "none"]
        /\ UNCHANGED <<rag_instances, course_access_count, hits>>
    ELSE
        /\ rag_instances' = << >>
        /\ course_access_count' = << >>
        /\ hits' = [t \in Tenants |-> 0]
        /\ engines' = [e \in DOMAIN eng |-> Dropped]
        /\ course' = [course EXCEPT ![p] = NoTenant]
        /\ rag' = [rag EXCEPT ![p] = NoEngine]
        /\ pc' = [pc EXCEPT ![p] = "done"]
        /\ ret' = [ret EXCEPT ![p] = "ok"]

\* cleanup() is called; the caller has stopped all other traffic first
Cleanup(p) ==
    /\ pc[p] = "idle" /\ calls < MaxCalls /\ Quiescent
    /\ op' = [op EXCEPT ![p] = "cleanup"]
    /\ calls' = calls + 1
    /\ CleanupFrom(p, 1, engines)
    /\ got' = [got EXCEPT ![p] = NoEngine]
    /\ UNCHANGED <<locked, waiters, least_used, course_ids, preloads, nodes>>

\* line 181 comes back, with or without an exception
CleanupStep(p) ==
    /\ pc[p] = "cleaning"
    /\ \E ok \in BOOLEAN :
         LET eng == SetState(engines, rag[p],
                             IF ok THEN "finalized" ELSE "finalize_failed")
         IN  IF CleanupCatches(ok) THEN
                 CleanupFrom(p, IndexOf(rag_instances, course[p]) + 1, eng)
             ELSE
                 /\ engines' = eng
                 /\ pc' = [pc EXCEPT ![p] = "done"]
                 /\ ret' = [ret EXCEPT ![p] = "raised"]
                 /\ course' = [course EXCEPT ![p] = NoTenant]
                 /\ rag' = [rag EXCEPT ![p] = NoEngine]
                 /\ UNCHANGED <<rag_instances, course_access_count, hits>>
    /\ UNCHANGED <<locked, waiters, op, least_used, got, course_ids, calls,
                   preloads, nodes>>

\* the caller of a public method goes on with the outcome of its call
Resume(p) ==
    /\ pc[p] = "done"
    /\ pc' = [pc EXCEPT ![p] = "idle"]
    /\ op' = [op EXCEPT ![p] = "none"]
    /\ course' = [course EXCEPT ![p] = NoTenant]
    /\ ret' = [ret EXCEPT ![p] = "none"]
    /\ got' = [got EXCEPT ![p] = NoEngine]
    /\ UNCHANGED <<rag_instances, course_access_count, locked, waiters,
                   least_used, rag, engines, course_ids, calls, preloads, nodes, hits>>

\* ------------------------------------------- the route get_source_graph
\* (src/lightrag/api/routers/graph_routes.py, lines 120-137)
\* what the body of the try raises once the query has come back with result
\* res: the query's own exception, or the HTTPException(404) of lines 126-130
\* when nodes is empty
SourceRaises(res) ==
    IF res = "raised" THEN "Exception"
    ELSE IF res = "empty" THEN "HTTPException404"
    ELSE "none"

\* line 136: except Exception catches every exception raised in the try;
\* HTTPException is a subclass of Exception
SourceCatches(exc) == exc \in {"Exception", "HTTPException404"}

\* the status the client receives: 200 from line 132, 500 from line 137, or
\* the status of an exception that line 136 let through
SourceStatus(exc) ==
    IF exc = "none" THEN "200"
    ELSE IF SourceCatches(exc) THEN "500"
    ELSE "404"

\* line 121: the handler calls rag_manager.get_rag(course_id)
GetSourceGraph(p) ==
    /\ \E t \in Tenants : Call(p, t, "get")

\* line 121 comes back: the handler goes on to the query of line 124 and
\* suspends in it, or the exception of get_rag is caught at line 136
SourceQuery(p) ==
    /\ pc[p] = "done" /\ op[p] = "get"
    /\ op' = [op EXCEPT ![p] = "source"]
    /\ IF ret[p] = "ok"
       THEN /\ pc' = [pc EXCEPT ![p] = "querying"]
            /\ ret' = [ret EXCEPT ![p] = "none"]
       ELSE /\ pc' = pc
            /\ ret' = [ret EXCEPT ![p] = SourceStatus("Exception")]
    /\ UNCHANGED <<rag_instances, course_access_count, locked, waiters,
                   course, least_used, rag, got, engines, course_ids, calls,
                   preloads, hits, nodes>>

\* line 124 comes back with nodes, with no nodes, or with an exception;
\* lines 126-137 follow without suspension
SourceQueryDone(p) ==
    /\ pc[p] = "querying" /\ ~Bursting /\ Settled
    /\ \E res \in {"some", "empty", "raised"} :
          /\ nodes' = [nodes EXCEPT ![p] = IF res = "raised" THEN "none" ELSE res]
          /\ ret' = [ret EXCEPT ![p] = SourceStatus(SourceRaises(res))]
    /\ pc' = [pc EXCEPT ![p] = "done"]
    /\ UNCHANGED <<rag_instances, course_access_count, locked, waiters, op,
                   course, least_used, rag, got, engines, course_ids, calls,
                   preloads, hits>>

\* the response leaves the handler
SourceRespond(p) ==
    /\ pc[p] = "done" /\ op[p] = "source"
    /\ pc' = [pc EXCEPT ![p] = "idle"]
    /\ op' = [op EXCEPT ![p] = "none"]
    /\ course' = [course EXCEPT ![p] = NoTenant]
    /\ ret' = [ret EXCEPT ![p] = "none"]
    /\ got' = [got EXCEPT ![p] = NoEngine]
    /\ nodes' = [nodes EXCEPT ![p] = "none"]
    /\ UNCHANGED <<rag_instances, course_access_count, locked, waiters,
                   least_used, rag, engines, course_ids, calls, preloads, hits>>

Next ==
    \/ \E p \in Callers : GetRag(p)
    \/ \E p \in Callers : SwitchCourse(p)
    \/ \E p \in Callers : PreloadCourses(p)
    \/ \E p \in Callers : PreloadReturn(p)
    \/ \E p \in Callers : Cleanup(p)
    \/ \E p \in Callers : CleanupStep(p)
    \/ \E k \in Children : ChildStart(k)
    \/ \E p \in Tasks : LockGranted(p)
    \/ \E p \in Tasks : FinalizeDone(p)
    \/ \E p \in Tasks : InitializeDone(p)
    \/ \E p \in Callers : Resume(p)

Spec == Init /\ [][Next]_vars

\* The event loop resumes a task whose await has completed, hands a free
\* lock to its first waiter and starts the tasks gather() has made; every
\* initialize_storages() and finalize_storages() call comes back in the end.
Fairness ==
    /\ \A p \in Tasks : /\ WF_vars(LockGranted(p))
                        /\ WF_vars(FinalizeDone(p))
                        /\ WF_vars(InitializeDone(p))
    /\ \A k \in Children : WF_vars(ChildStart(k))
    /\ \A p \in Callers : /\ WF_vars(PreloadReturn(p))
                          /\ WF_vars(CleanupStep(p))
                          /\ WF_vars(Resume(p))

FairSpec == Spec /\ Fairness

\* the manager under the requests of the route get_source_graph
RouteNext ==
    \/ \E p \in Callers : GetSourceGraph(p)
    \/ \E p \in Callers : SourceQuery(p)
    \/ \E p \in Callers : SourceQueryDone(p)
    \/ \E p \in Callers : SourceRespond(p)
    \/ \E p \in Callers : LockGranted(p)
    \/ \E p \in Callers : FinalizeDone(p)
    \/ \E p \in Callers : InitializeDone(p)

RouteSpec == Init /\ [][RouteNext]_vars

\* ------------------------------------------------------------ properties
Range(f) == { f[i] : i \in DOMAIN f }

Min2(a, b) == IF a < b THEN a ELSE b

\* the first max_preloaded ids of a list, as a set
FirstIds(ids) == { ids[i] : i \in 1 .. Min2(Len(ids), MaxCapacity) }

Distinct(ids, n) == \A i, j \in 1 .. Min2(Len(ids), n) : i # j => ids[i] # ids[j]

\* the engines the manager holds a reference to for course t: registered,
\* or being built by a task inside initialize_course
Held(t) == { e \in DOMAIN engines : engines[e].course = t }

Failed(r) == r \in {"raised", "false"}

\* C1: the pool never holds more than max_preloaded instances, in any state
\* of any interleaving of get_rag, switch_course and preload_courses calls,
\* failed constructions and failed finalizations included.
CapacityBound == Len(rag_instances) <= MaxCapacity

\* a full pool that has already evicted an instance and seen a failed call
CapacityBoundReached ==
    /\ Len(rag_instances) = MaxCapacity
    /\ Len(engines) > MaxCapacity
    /\ \E p \in Callers : pc[p] = "done" /\ Failed(ret[p])

\* C2: in every state, a course is a key of rag_instances exactly when it is
\* a key of course_access_count.
KeySetEquality == Keys(rag_instances) = Keys(course_access_count)

\* an eviction is in flight (its victim still registered in both dicts)
\* while a task made by preload_courses has registered another course
KeySetEqualityReached ==
    /\ \E p \in Tasks : pc[p] = "finalizing" /\ Has(rag_instances, least_used[p])
    /\ \E i \in DOMAIN course_access_count : course_access_count[i][2] = 0
    /\ \E i \in DOMAIN course_access_count : course_access_count[i][2] > 0

IsVictim(v, ri, cac) ==
    /\ Has(ri, v) /\ Has(cac, v)
    /\ \A u \in Keys(ri) :
          /\ Lookup(cac, v) <= Lookup(cac, u)
          /\ Lookup(cac, v) = Lookup(cac, u) => IndexOf(ri, v) <= IndexOf(ri, u)

\* C4: when an admission finds the pool full, the course it picks for
\* eviction has the smallest access count of the resident courses at that
\* moment, the earliest admitted one among those tied; and the eviction
\* removes exactly that course.
EvictionVictim ==
    [][\A p \in Tasks :
         /\ (pc[p] # "finalizing" /\ pc'[p] = "finalizing")
               => IsVictim(least_used'[p], rag_instances, course_access_count)
         /\ (pc[p] = "finalizing" /\ pc'[p] = "initializing")
               => /\ Keys(rag_instances') = Keys(rag_instances) \ {least_used[p]}
                  /\ Keys(course_access_count')
                        = Keys(course_access_count) \ {least_used[p]}
                  /\ Has(rag_instances, least_used[p])
      ]_vars

\* an eviction whose victim was tied on a count of one with a later course
EvictionVictimReached ==
    \E p \in Tasks :
        /\ pc[p] = "finalizing"
        /\ \E u \in Keys(course_access_count) :
              /\ u # least_used[p]
              /\ Lookup(course_access_count, u) = 1
              /\ Lookup(course_access_count, least_used[p]) = 1

\* preload_courses returns in this step to caller p
PreloadReturns(p) == pc[p] = "gather" /\ pc'[p] = "done"

\* C5 as stated: whenever preload_courses returns from a list of more than
\* max_preloaded ids, exactly max_preloaded courses are resident and they
\* are the first max_preloaded ids of the list.
PreloadTruncationAlways ==
    [][\A p \in Callers :
         (PreloadReturns(p) /\ Len(course_ids) > MaxCapacity)
            => /\ Len(rag_instances') = MaxCapacity
               /\ Keys(rag_instances') = FirstIds(course_ids)
      ]_vars

\* C5 amended: a preload_courses that is the only call made on a new
\* manager, with more than max_preloaded ids of which the first
\* max_preloaded are pairwise distinct, and that returns normally, leaves
\* exactly the first max_preloaded ids resident; and no task of any
\* preload_courses ever runs initialize_course for an id that is not among
\* the first max_preloaded ids of its list.
PreloadTruncation ==
    [][/\ \A p \in Callers :
            (/\ PreloadReturns(p) /\ ret'[p] = "ok" /\ calls = 1
             /\ Len(course_ids) > MaxCapacity
             /\ Distinct(course_ids, MaxCapacity))
               => /\ Len(rag_instances') = MaxCapacity
                  /\ Keys(rag_instances') = FirstIds(course_ids)
       /\ \A k \in Children :
            (pc'[k] # "idle" /\ course_ids' # << >>)
               => course'[k] \in FirstIds(course_ids')
      ]_vars

\* every task of a first preload_courses of three distinct ids has returned
\* and the first max_preloaded ids are resident
PreloadTruncationReached ==
    \E p \in Callers :
        /\ pc[p] = "gather" /\ calls = 1 /\ GatherResult = "ok"
        /\ Len(course_ids) > MaxCapacity
        /\ Distinct(course_ids, Len(course_ids))
        /\ Keys(rag_instances) = FirstIds(course_ids)
        /\ Len(rag_instances) = MaxCapacity

\* initialize_storages() of the engine that task p is building raises in
\* this step
InitFails(p) ==
    /\ pc[p] = "initializing" /\ pc'[p] \in {"done", "idle"}
    /\ engines'[rag[p]].st # "live"

\* C6: when the construction for get_rag(t) fails, the caller sees the
\* exception, and t is a key of neither dict afterwards.
ConstructionFailureLeavesNothing ==
    [][\A p \in Tasks :
         InitFails(p)
            => /\ ~Has(rag_instances', course[p])
               /\ ~Has(course_access_count', course[p])
               /\ op[p] = "get" => (ret'[p] = "raised" /\ got'[p] = NoEngine)
      ]_vars

\* a get_rag has raised on a failed construction that followed an eviction
ConstructionFailureReached ==
    \E p \in Callers :
        /\ pc[p] = "done" /\ op[p] = "get" /\ ret[p] = "raised"
        /\ ~Has(rag_instances, course[p])
        /\ Len(rag_instances) = MaxCapacity - 1
        /\ \A e \in DOMAIN engines : engines[e].st \in {"live", "dropped"}
        /\ Len(engines) > MaxCapacity

\* finalize_storages() of the victim that task p is evicting raises in this
\* step
EvictFinalizeFails(p) ==
    /\ pc[p] = "finalizing"
    /\ engines'[Lookup(rag_instances, least_used[p])].st = "finalize_failed"

\* C7 as stated: when the victim's finalize fails, the victim is removed from
\* both dicts all the same, the admission goes on, and the caller does not
\* see the failure.
EvictionAbsorbsFinalizeFailure ==
    [][\A p \in Tasks :
         EvictFinalizeFails(p)
            => /\ ~Has(rag_instances', least_used[p])
               /\ ~Has(course_access_count', least_used[p])
               /\ pc'[p] = "initializing"
               /\ ~Failed(ret'[p])
      ]_vars

\* cleanup returns in this step to caller p
CleanupReturns(p) ==
    pc[p] \in {"idle", "cleaning"} /\ pc'[p] = "done" /\ op'[p] = "cleanup"

\* C8: with no other call in progress, cleanup calls finalize_storages() on
\* every registered engine in turn whatever the outcome of the earlier ones,
\* returns without raising, and leaves both dicts empty; a cleanup on an
\* empty pool finalizes nothing, raises nothing and leaves the pool empty.
CleanupBestEffort ==
    [][\A p \in Callers :
         /\ CleanupReturns(p)
               => /\ ret'[p] = "ok"
                  /\ rag_instances' = << >> /\ course_access_count' = << >>
                  /\ \A i \in DOMAIN rag_instances :
                        /\ engines[rag_instances[i][2]].fin >= 1
                        /\ engines[rag_instances[i][2]].st
                              \in {"finalizing", "finalized", "finalize_failed"}
         /\ (pc[p] = "cleaning" /\ pc'[p] = "cleaning")
               => /\ IndexOf(rag_instances, course'[p])
                        = IndexOf(rag_instances, course[p]) + 1
                  /\ engines'[rag'[p]].fin = engines[rag'[p]].fin + 1
         /\ (pc[p] = "idle" /\ pc'[p] = "cleaning")
               => course'[p] = rag_instances[1][1]
         /\ (pc[p] = "cleaning" /\ pc'[p] = "done")
               => IndexOf(rag_instances, course[p]) = Len(rag_instances)
         /\ (CleanupReturns(p) /\ rag_instances = << >>)
               => \A e \in DOMAIN engines : engines'[e].fin = engines[e].fin
      ]_vars

\* cleanup has gone on to the second engine after the finalize of the first
\* one failed
CleanupBestEffortReached ==
    \E p \in Callers :
        /\ pc[p] = "cleaning"
        /\ IndexOf(rag_instances, course[p]) = 2
        /\ engines[rag_instances[1][2]].st = "finalize_failed"

\* C9 as stated: preload_courses returns only when every task it made has
\* returned or raised.
PreloadWaitsForAll ==
    [][\A p \in Callers :
         PreloadReturns(p) => \A k \in Kids : pc[k] = "idle"
      ]_vars

\* C10: the access count of every resident course equals the number of
\* get_rag calls (switch_course included) that returned its engine since it
\* was last registered; a newly registered course starts from zero.
AccessCountExact ==
    /\ \A i \in DOMAIN course_access_count :
          course_access_count[i][2] = hits[course_access_count[i][1]]
    /\ \A t \in Tenants : ~Has(course_access_count, t) => hits[t] = 0

\* a course preloaded and never used next to one used twice
AccessCountExactReached ==
    /\ \E i \in DOMAIN course_access_count : course_access_count[i][2] = 0
    /\ \E i \in DOMAIN course_access_count : course_access_count[i][2] = 2
    /\ \E p \in Callers : pc[p] = "done" /\ op[p] = "switch" /\ ret[p] = "true"

\* task p's call returns to its caller in this step
Returns(p) == pc[p] # "done" /\ pc'[p] = "done"

\* a step of preload_courses or of one of the tasks it made
PreloadStep ==
    \/ \E k \in Children : pc'[k] # pc[k]
    \/ \E p \in Callers : (pc[p] = "gather") # (pc'[p] = "gather")

\* C11: no step of preload_courses or of its tasks changes the access count
\* of a course that stays resident, and a course such a step registers gets
\* the count 0; the count of a resident course changes only in a step in
\* which a get_rag (or switch_course) on that course returns.
PreloadNoUsage ==
    [][/\ PreloadStep
            => \A t \in Keys(course_access_count') :
                  Lookup(course_access_count', t)
                     = GetOr(course_access_count, t, 0)
       /\ \A t \in Keys(course_access_count) \cap Keys(course_access_count') :
            Lookup(course_access_count', t) # Lookup(course_access_count, t)
               => \E p \in Callers :
                     /\ Returns(p) /\ op'[p] \in {"get", "switch"}
                     /\ course'[p] = t /\ ret'[p] \in {"ok", "true"}
      ]_vars

\* a preload_courses has returned and left a course with the count 0 next to
\* a course that has been used
PreloadNoUsageReached ==
    \E p \in Callers :
        /\ pc[p] = "done" /\ op[p] = "preload" /\ ret[p] = "ok"
        /\ \E i \in DOMAIN course_access_count : course_access_count[i][2] = 0
        /\ \E i \in DOMAIN course_access_count : course_access_count[i][2] > 0

\* C12: switch_course never raises: it returns True or False; it returns
\* False exactly when the get_rag it calls raised (a failed construction or a
\* failed finalize of the victim), and the course is then not resident; when
\* it returns True the course is resident and its count has gone up by one.
SwitchTotal ==
    [][\A p \in Callers :
         (Returns(p) /\ op'[p] = "switch")
            => /\ ret'[p] \in {"true", "false"}
               /\ ret'[p] = "false" <=> (InitFails(p) \/ EvictFinalizeFails(p))
               /\ ret'[p] = "false" => ~Has(rag_instances', course'[p])
               /\ ret'[p] = "true"
                     => /\ Has(rag_instances', course'[p])
                        /\ Lookup(course_access_count', course'[p])
                              = GetOr(course_access_count, course'[p], 0) + 1
      ]_vars

\* a switch_course has returned False for a course that is not resident,
\* after another call had succeeded
SwitchTotalReached ==
    \E p \in Callers :
        /\ pc[p] = "done" /\ op[p] = "switch" /\ ret[p] = "false"
        /\ ~Has(rag_instances, course[p])
        /\ \E i \in DOMAIN course_access_count : course_access_count[i][2] > 0

\* get_rag or switch_course is called in this step by caller p
Called(p) == pc[p] = "idle" /\ pc'[p] # "idle" /\ op'[p] \in {"get", "switch"}

\* C13: a get_rag on a resident course returns that course's engine in the
\* step of the call, with the count one higher, and neither takes the lock
\* nor queues for it, whoever holds it.
FastPathNoLock ==
    [][\A p \in Callers :
         (Called(p) /\ Has(rag_instances, course'[p]))
            => /\ pc'[p] = "done" /\ ret'[p] \in {"ok", "true"}
               /\ got'[p] = Lookup(rag_instances, course'[p])
               /\ Lookup(course_access_count', course'[p])
                     = Lookup(course_access_count, course'[p]) + 1
               /\ locked' = locked /\ waiters' = waiters
      ]_vars

\* a get_rag has returned a resident course's engine while another task
\* holds the lock for a different course and a third one queues for it
FastPathNoLockReached ==
    \E p \in Callers :
        /\ pc[p] = "done" /\ op[p] = "get" /\ ret[p] = "ok"
        /\ got[p] = Lookup(rag_instances, course[p])
        /\ locked
        /\ \E q \in Tasks : /\ pc[q] \in {"initializing", "finalizing"}
                             /\ course[q] # course[p]
        /\ waiters # << >>

\* C14 as stated: when the query of get_source_graph finds no nodes for the
\* source id, the client receives the status 404.
SourceNotFound ==
    [][\A p \in Callers :
         (pc[p] = "querying" /\ pc'[p] = "done" /\ nodes'[p] = "empty")
            => ret'[p] = "404"
      ]_vars

\* the tasks between taking and releasing the lock: each is suspended in the
\* finalize of a victim or in the initialize of a new engine
InLock == { p \in Tasks : pc[p] \in {"finalizing", "initializing"} }

\* the engines whose construction or eviction is in flight
InFlight == { e \in DOMAIN engines :
                engines[e].st \in {"initializing", "finalizing"} }

\* C15: at most one task is between taking and releasing the lock, and the
\* lock is held exactly while there is one; outside cleanup at most one
\* engine is being initialized or finalized; and every step of get_rag,
\* switch_course or preload_courses that changes the set of resident courses
\* is a step of the task that holds the lock.
AdmissionMutex ==
    /\ [](/\ Cardinality(InLock) <= 1
          /\ locked <=> InLock # {}
          /\ ~Cleaning => Cardinality(InFlight) <= 1)
    /\ [][(/\ Keys(rag_instances') # Keys(rag_instances)
           /\ \A q \in Callers : ~CleanupReturns(q))
            => \E p \in InLock : locked /\ pc'[p] # pc[p]
         ]_vars

\* a task is finalizing a victim under the lock while another task queues
AdmissionMutexReached ==
    /\ locked /\ waiters # << >>
    /\ \E p \in Tasks : pc[p] = "finalizing"

\* C16 as stated: an engine that get_rag returns has completed
\* initialize_storages() and the manager has not called finalize_storages()
\* on it.
GetReturnsLive ==
    [][\A p \in Callers :
         (Returns(p) /\ op'[p] = "get" /\ got'[p] # NoEngine)
            => /\ engines'[got'[p]].st = "live"
               /\ engines'[got'[p]].fin = 0
      ]_vars

\* C17 as stated: the manager never calls finalize_storages() a second time
\* on the same engine (cleanup running with no other call in progress).
FinalizeOnce == \A e \in DOMAIN engines : engines[e].fin <= 1

\* C18: every get_rag, switch_course and preload_courses call, and every task
\* a preload_courses made, comes to its end (returns or raises); the lock is
\* free after every step in which an admission fails, and a held lock is
\* released in the end.
Progress ==
    /\ \A p \in Tasks : (pc[p] # "idle") ~> (pc[p] \in {"done", "idle"})
    /\ locked ~> ~locked
    /\ [][\A p \in Tasks :
             (InitFails(p) \/ EvictFinalizeFails(p)) => ~locked'
         ]_vars

\* an admission has just failed while two tasks queue for the lock
ProgressReached ==
    /\ ~locked /\ Len(waiters) >= 2
    /\ \E p \in Callers : pc[p] = "done" /\ Failed(ret[p])

\* C19: an admission into a full pool removes its victim from both dicts
\* before it constructs the new engine, and when the initialization of that
\* engine then fails the victim is not put back: the pool holds
\* max_preloaded - 1 courses, neither the victim nor the failed course.
EvictionNotRolledBack ==
    [][\A p \in Tasks :
         /\ (pc[p] = "finalizing" /\ pc'[p] = "initializing")
               => /\ Len(rag_instances) = MaxCapacity
                  /\ ~Has(rag_instances', least_used[p])
                  /\ ~Has(course_access_count', least_used[p])
                  /\ Len(engines') = Len(engines) + 1
                  /\ least_used'[p] = least_used[p]
         /\ (InitFails(p) /\ least_used[p] # NoTenant)
               => /\ Len(rag_instances') = MaxCapacity - 1
                  /\ ~Has(rag_instances', least_used[p])
                  /\ ~Has(course_access_count', least_used[p])
                  /\ ~Has(rag_instances', course[p])
                  /\ ~Has(course_access_count', course[p])
                  /\ Failed(ret'[p]) \/ p \in Children
      ]_vars

\* a caller has evicted a victim and is initializing the new engine, whose
\* failure will leave the pool one short, while another task queues
EvictionNotRolledBackReached ==
    \E p \in Callers :
        /\ pc[p] = "initializing" /\ least_used[p] # NoTenant
        /\ ~Has(rag_instances, least_used[p])
        /\ Len(rag_instances) = MaxCapacity - 1
        /\ waiters # << >>

\* C20: outside cleanup, a step removes a resident course only when it is the
\* eviction step of a task admitting a course that is not resident into a
\* pool of exactly max_preloaded courses, and it removes exactly the victim;
\* an eviction starts only on such a pool; a step that registers a course
\* removes none; a get_rag on a resident course, and an admission that
\* starts on a pool below max_preloaded, leave the resident set as it is.
EvictionOnlyUnderPressure ==
    [][(\A q \in Callers : ~CleanupReturns(q))
         => LET gone == Keys(rag_instances) \ Keys(rag_instances')
                new  == Keys(rag_instances') \ Keys(rag_instances)
            IN  /\ gone # {}
                      => \E p \in Tasks :
                            /\ pc[p] = "finalizing" /\ pc'[p] = "initializing"
                            /\ gone = {least_used[p]}
                            /\ Len(rag_instances) = MaxCapacity
                            /\ ~Has(rag_instances, course[p])
                /\ new # {}
                      => /\ gone = {}
                         /\ \E p \in Tasks : /\ pc[p] = "initializing"
                                              /\ new = {course[p]}
                /\ \A p \in Tasks :
                      /\ (pc[p] # "finalizing" /\ pc'[p] = "finalizing")
                            => /\ Len(rag_instances) = MaxCapacity
                               /\ ~Has(rag_instances, course'[p])
                      /\ (pc[p] \notin {"finalizing", "initializing"}
                             /\ pc'[p] = "initializing")
                            => /\ Len(rag_instances) < MaxCapacity
                               /\ Keys(rag_instances') = Keys(rag_instances)
                /\ \A p \in Callers :
                      (Called(p) /\ Has(rag_instances, course'[p]))
                         => Keys(rag_instances') = Keys(rag_instances)
      ]_vars

\* a task made by preload_courses has evicted one course from a full pool
\* and is initializing the engine of its own course
EvictionOnlyUnderPressureReached ==
    \E k \in Children :
        /\ pc[k] = "initializing" /\ least_used[k] # NoTenant
        /\ ~Has(rag_instances, least_used[k])
        /\ Len(rag_instances) = MaxCapacity - 1

====
